---- MODULE Spec2Model ----
(***************************************************************************)
(* The jlox scanner of src/src/main.rs as a state machine.                 *)
(*                                                                         *)
(* A source text is a sequence of characters; each character is a string. *)
(* The scanner keeps ONE cursor and uses it in two ways: as a character    *)
(* index in source.chars().nth(current) and as a byte offset in            *)
(* source.len() and in the slices source[start..current].  The model keeps *)
(* both readings, so a character has a UTF-8 width.                        *)
(***************************************************************************)
EXTENDS Integers, Sequences, FiniteSets, TLC

\* ------------------------------------------------------------ characters

QUOTE == "\""
NEWLINE == "\n"
\* U+00E9 (e acute): a character whose UTF-8 encoding is two bytes long.
NonAscii == "U+00E9"
\* Option<char>::None, and the Some('\0') that peek_next returns at the end.
None == "None"
NUL == "\\0"

Digits == {"0", "1", "2", "3", "4", "5", "6", "7", "8", "9"}
LowerLetters ==
    {"a", "b", "c", "d", "e", "f", "g", "h", "i", "j", "k", "l", "m",
     "n", "o", "p", "q", "r", "s", "t", "u", "v", "w", "x", "y", "z"}
UpperLetters ==
    {"A", "B", "C", "D", "E", "F", "G", "H", "I", "J", "K", "L", "M",
     "N", "O", "P", "Q", "R", "S", "T", "U", "V", "W", "X", "Y", "Z"}

\* char::len_utf8 of the characters the model draws sources from.
Width(c) == IF c = NonAscii THEN 2 ELSE 1

\* ---------------------------------------------------------------- bounds

\* Longest source drawn from the alphabet (the examples may be longer).
MaxLen == 3

\* The characters the bounded sources are drawn from: one of each class the
\* scanner tells apart.
Alphabet == {QUOTE, NEWLINE, " ", "/", "!", "=", ".", "1", "a", "@", NonAscii}

RECURSIVE SeqsUpTo(_, _)
SeqsUpTo(S, n) ==
    IF n = 0 THEN {<<>>}
    ELSE LET shorter == SeqsUpTo(S, n - 1)
         IN shorter \cup {Append(s, c) : s \in {t \in shorter : Len(t) = n - 1}, c \in S}

\* The inputs the specification names, character by character.
Examples ==
    { <<"f","o","r"," ","f","o","r","e","v","e","r">>,
      <<"a","n","d">>, <<"c","l","a","s","s">>, <<"e","l","s","e">>,
      <<"f","a","l","s","e">>, <<"f","u","n">>, <<"f","o","r">>, <<"i","f">>,
      <<"n","i","l">>, <<"o","r">>, <<"p","r","i","n","t">>,
      <<"r","e","t","u","r","n">>, <<"s","u","p","e","r">>,
      <<"t","h","i","s">>, <<"t","r","u","e">>, <<"v","a","r">>,
      <<"w","h","i","l","e">>,
      <<"3",".">>, <<".","5">>, <<"1",".","2",".","3">>, <<"3",".","1","4">>,
      <<"4","2">>, <<"1",".","0">>,
      <<QUOTE,"h","e","l","l","o",QUOTE>>,
      <<QUOTE,"a",NEWLINE,"b",QUOTE," ","1">>,
      <<QUOTE,"a",QUOTE," ","1",".","0">>,
      <<"1"," ","/","/"," ","c",NEWLINE,"2">>,
      <<"1"," ","/","/"," ","c","o","m","m","e","n","t",NEWLINE,"2">>,
      <<"f","o","r","e","v","e","r">>, <<"a","n","d","y">>,
      <<"c","l","a","s","s","e","s">>, <<"V","a","r">>, <<"_","i","f","1">>,
      <<"a"," ","@"," ","1">>,
      <<"(",")","{","}",",",".","-","+",";","*">>,
      <<"!","!","=","=","=","=","<","<","=",">",">","=">>,
      <<NonAscii," ",QUOTE,"a",QUOTE>>,
      <<NonAscii,NonAscii,"!","=">>,
      <<"/","/",NonAscii,NEWLINE,"1">>,
      <<"/","/",NonAscii,NEWLINE,"a">> }

Sources == SeqsUpTo(Alphabet, MaxLen) \cup Examples

\* --------------------------------------------------------- str, as bytes

\* Byte offset of the k-th character boundary of s (k characters precede it).
RECURSIVE ByteOffset(_, _)
ByteOffset(s, k) == IF k = 0 THEN 0 ELSE ByteOffset(s, k - 1) + Width(s[k])

\* str::len: the length in bytes.
ByteLen(s) == ByteOffset(s, Len(s))

\* str::is_char_boundary
is_char_boundary(s, i) == \E k \in 0..Len(s) : ByteOffset(s, k) = i

CharsBefore(s, i) == CHOOSE k \in 0..Len(s) : ByteOffset(s, k) = i

\* &s[a..b]: the characters between two byte offsets; the index panics when
\* the range is not within the string or an end is not a character boundary.
Slice(s, a, b) ==
    IF a <= b /\ b <= ByteLen(s) /\ is_char_boundary(s, a) /\ is_char_boundary(s, b)
    THEN [ok |-> TRUE, val |-> SubSeq(s, CharsBefore(s, a) + 1, CharsBefore(s, b))]
    ELSE [ok |-> FALSE, val |-> <<>>]

\* ------------------------------------------------------- str::parse::<f32>

AllDigits(s) == \A i \in 1..Len(s) : s[i] \in Digits

\* Digit+ | Digit+ '.' Digit* | Digit* '.' Digit+
IsDecimal(s) ==
    LET dots == {i \in 1..Len(s) : s[i] = "."}
    IN \/ Len(s) > 0 /\ AllDigits(s)
       \/ /\ Cardinality(dots) = 1
          /\ Len(s) >= 2
          /\ \A i \in 1..Len(s) : i \in dots \/ s[i] \in Digits

Unsigned(s) == IF Len(s) > 0 /\ s[1] \in {"+", "-"} THEN Tail(s) ELSE s

IsSpecial(s) ==
    LET names == { <<"i","n","f">>, <<"n","a","n">>,
                   <<"i","n","f","i","n","i","t","y">> }
        upper == [c \in {"i","n","f","a","t","y"} |->
                     CASE c = "i" -> "I" [] c = "n" -> "N" [] c = "f" -> "F"
                       [] c = "a" -> "A" [] c = "t" -> "T" [] c = "y" -> "Y"]
    IN \E n \in names :
          /\ Len(n) = Len(s)
          /\ \A i \in 1..Len(n) : s[i] = n[i] \/ s[i] = upper[n[i]]

\* The grammar FromStr for f32 accepts: [sign] (inf | infinity | nan | Number),
\* Number a decimal with an optional exponent.
F32Accepts(s) ==
    LET u == Unsigned(s)
        es == {i \in 1..Len(u) : u[i] \in {"e", "E"}}
    IN \/ IsSpecial(u)
       \/ IsDecimal(u)
       \/ \E q \in es :
             /\ IsDecimal(SubSeq(u, 1, q - 1))
             /\ LET x == Unsigned(SubSeq(u, q + 1, Len(u)))
                IN Len(x) > 0 /\ AllDigits(x)

RECURSIVE StripLeadingZeros(_)
StripLeadingZeros(s) ==
    IF Len(s) > 1 /\ s[1] = "0" THEN StripLeadingZeros(Tail(s)) ELSE s

RECURSIVE StripTrailingZeros(_)
StripTrailingZeros(s) ==
    IF Len(s) > 0 /\ s[Len(s)] = "0"
    THEN StripTrailingZeros(SubSeq(s, 1, Len(s) - 1)) ELSE s

\* The value of an unsigned decimal without exponent, as its canonical
\* numeral: 1.0, 1. and 01 are all <<"1">>.  (Two numerals of at most 7
\* significant digits name the same f32 exactly when they have the same
\* canonical numeral; the sources here are shorter than that.)  Any other
\* accepted text stands for itself.
F32Value(s) ==
    IF ~IsDecimal(s) THEN s
    ELSE LET dots == {i \in 1..Len(s) : s[i] = "."}
             p == IF dots = {} THEN Len(s) + 1 ELSE CHOOSE i \in dots : TRUE
             ip == SubSeq(s, 1, p - 1)
             fp == StripTrailingZeros(SubSeq(s, p + 1, Len(s)))
             int == StripLeadingZeros(IF ip = <<>> THEN <<"0">> ELSE ip)
         IN IF fp = <<>> THEN int ELSE int \o <<".">> \o fp

\* s.parse::<f32>(): Ok(value) or Err.
ParseF32(s) ==
    IF F32Accepts(s) THEN [ok |-> TRUE, val |-> F32Value(s)]
    ELSE [ok |-> FALSE, val |-> <<>>]

\* ------------------------------------------------------------------ state

VARIABLES
    source,       \* Scanner.source
    tokens,       \* Scanner.tokens
    start,        \* Scanner.start
    current,      \* Scanner.current
    line,         \* Scanner.line
    had_error,    \* Lox.had_error
    diagnostics,  \* the "Unexpected character." lines printed so far
    pc,           \* where the process is
    exit_code,    \* the process's exit status, -1 while it runs
    steps,        \* history: one record per scan_token call
    args,         \* main's args, the argument vector
    file_path     \* run_file's file_path, None when run_file was not called

vars == <<source, tokens, start, current, line, had_error, diagnostics, pc,
          exit_code, steps, args, file_path>>

\* --------------------------------------------------------------- Scanner

is_at_end(cur) == cur >= ByteLen(source)

\* self.source.chars().nth(i)
nth(i) == IF i < Len(source) THEN source[i + 1] ELSE None

peek(cur) == IF is_at_end(cur) THEN None ELSE nth(cur)

peek_next(cur) == IF cur + 1 >= ByteLen(source) THEN NUL ELSE nth(cur + 1)

is_digit(val) == val \in Digits

is_alpha(val) == val \in LowerLetters \cup UpperLetters \cup {"_"}

is_alphanum(val) == is_digit(val) \/ is_alpha(val)

\* check moving the cursor on whether or not the character matched.
check_always_advances(cur, expected) ==
    [matched |-> ~is_at_end(cur) /\ nth(cur) = expected, current |-> cur + 1]

\* check: whether the character at the cursor is the expected one, and the
\* cursor afterwards.
check(cur, expected) ==
    IF is_at_end(cur) THEN [matched |-> FALSE, current |-> cur]
    ELSE IF nth(cur) = expected THEN [matched |-> TRUE, current |-> cur + 1]
    ELSE [matched |-> FALSE, current |-> cur]

Token(token_type, literal, lexeme, ln) ==
    [token_type |-> token_type, literal |-> literal, lexeme |-> lexeme, line |-> ln]

\* What one scan_token call leaves behind: the cursor and the line counter,
\* the token it pushed and the line it printed (each a sequence of none or
\* one), and how it ended: "ok", "panic" (a slice index panicked) or "exit"
\* (process::exit(65)).
Outcome(result, cur, ln, emit, diag) ==
    [result |-> result, current |-> cur, line |-> ln, emit |-> emit, diag |-> diag]

Quiet(cur, ln) == Outcome("ok", cur, ln, <<>>, <<>>)

Panic(cur, ln) == Outcome("panic", cur, ln, <<>>, <<>>)

\* add_token followed by add_literal: the token is pushed twice.
add_token_twice(token_type, literal, st, cur, ln) ==
    LET lexeme == Slice(source, st, cur)
        token == Token(token_type, literal, lexeme.val, ln)
    IN IF lexeme.ok THEN Outcome("ok", cur, ln, <<token, token>>, <<>>)
       ELSE Panic(cur, ln)

\* add_token with the lexeme rebuilt from the payload where there is one.
add_token_rebuilt(token_type, literal, st, cur, ln) ==
    LET lexeme == Slice(source, st, cur)
    IN IF lexeme.ok
       THEN Outcome("ok", cur, ln,
                <<Token(token_type, literal,
                        IF literal # <<>> THEN literal ELSE lexeme.val, ln)>>, <<>>)
       ELSE Panic(cur, ln)

\* add_token / add_literal: the lexeme is source[start..current].
add_token(token_type, literal, st, cur, ln) ==
    LET lexeme == Slice(source, st, cur)
    IN IF lexeme.ok
       THEN Outcome("ok", cur, ln, <<Token(token_type, literal, lexeme.val, ln)>>, <<>>)
       ELSE Panic(cur, ln)

\* comment_loop with the loop left out: the comment ends after its "//".
comment_loop_skipped(cur) == cur

\* while (self.peek() != Some('\n')) && !self.is_at_end() { self.advance(); }
RECURSIVE comment_loop(_)
comment_loop(cur) ==
    IF peek(cur) # NEWLINE /\ ~is_at_end(cur) THEN comment_loop(cur + 1) ELSE cur

\* string_loop without the line count of the newlines it passes.
RECURSIVE string_loop_uncounted(_, _)
string_loop_uncounted(cur, ln) ==
    IF peek(cur) # QUOTE /\ ~is_at_end(cur)
    THEN string_loop_uncounted(cur + 1, ln)
    ELSE [current |-> cur, line |-> ln]

\* The loop of the string branch: to the next '"' or the end, counting lines.
RECURSIVE string_loop(_, _)
string_loop(cur, ln) ==
    IF peek(cur) # QUOTE /\ ~is_at_end(cur)
    THEN string_loop(cur + 1, IF peek(cur) = NEWLINE THEN ln + 1 ELSE ln)
    ELSE [current |-> cur, line |-> ln]

\* digit_loop testing is_alphanum where it should test is_digit.
RECURSIVE digit_loop_alphanum(_)
digit_loop_alphanum(cur) ==
    IF is_alphanum(peek(cur)) THEN digit_loop_alphanum(cur + 1) ELSE cur

\* while self.is_digit(self.peek()) { self.advance(); }
RECURSIVE digit_loop(_)
digit_loop(cur) == IF is_digit(peek(cur)) THEN digit_loop(cur + 1) ELSE cur

\* while self.is_alphanum(self.peek()) { self.advance(); }
RECURSIVE alphanum_loop(_)
alphanum_loop(cur) == IF is_alphanum(peek(cur)) THEN alphanum_loop(cur + 1) ELSE cur

\* number_scan taking a '.' whatever follows it.
number_scan_any_dot(cur) ==
    LET c1 == digit_loop(cur)
        c2 == IF peek(c1) = "." THEN c1 + 1 ELSE c1
    IN digit_loop(c2)

\* The cursor after the number branch's three steps: digits, a '.' that a
\* digit follows, digits.
number_scan(cur) ==
    LET c1 == digit_loop(cur)
        c2 == IF peek(c1) = "." /\ is_digit(peek_next(c1)) THEN c1 + 1 ELSE c1
    IN digit_loop(c2)

\* The match on the identifier's text.
keyword(text) ==
    CASE text = <<"a","n","d">> -> "And"
      [] text = <<"c","l","a","s","s">> -> "Class"
      [] text = <<"e","l","s","e">> -> "Else"
      [] text = <<"f","a","l","s","e">> -> "False"
      [] text = <<"f","u","n">> -> "Func"
      [] text = <<"i","f">> -> "If"
      [] text = <<"n","i","l">> -> "Nil"
      [] text = <<"o","r">> -> "Or"
      [] text = <<"p","r","i","n","t">> -> "Print"
      [] text = <<"r","e","t","u","r","n">> -> "Return"
      [] text = <<"s","u","p","e","r">> -> "Super"
      [] text = <<"t","h","i","s">> -> "This"
      [] text = <<"t","r","u","e">> -> "True"
      [] text = <<"v","a","r">> -> "Var"
      [] text = <<"w","h","i","l","e">> -> "While"
      [] OTHER -> "Identifier"

\* The arms for the single-character tokens.
single_char(c) ==
    CASE c = "(" -> "LeftParen" [] c = ")" -> "RightParen"
      [] c = "{" -> "LeftBrace" [] c = "}" -> "RightBrace"
      [] c = "," -> "Comma" [] c = "." -> "Dot"
      [] c = "-" -> "Minus" [] c = "+" -> "Plus"
      [] c = ";" -> "Semicolon" [] c = "*" -> "Star"

\* The arms for '!', '=', '<', '>': the kind with and without a '=' after it.
operator_kind(c, matched) ==
    CASE c = "!" -> IF matched THEN "BangEqual" ELSE "Bang"
      [] c = "=" -> IF matched THEN "EqualEqual" ELSE "Equal"
      [] c = "<" -> IF matched THEN "LessEqual" ELSE "Less"
      [] c = ">" -> IF matched THEN "GreaterEqual" ELSE "Greater"

\* string_branch without the test that the input has not ended.
string_branch_unchecked(st, cur, ln) ==
    LET s == string_loop(cur, ln)
        body == Slice(source, st + 1, s.current + 1 - 1)
    IN IF body.ok
       THEN add_token("String", body.val, st, s.current + 1, s.line)
       ELSE Panic(s.current + 1, s.line)

\* The string branch, after the opening quote was consumed.
string_branch(st, cur, ln) ==
    LET s == string_loop(cur, ln)
    IN IF ~is_at_end(s.current)
       THEN LET body == Slice(source, st + 1, s.current + 1 - 1)
            IN IF body.ok
               THEN add_token("String", body.val, st, s.current + 1, s.line)
               ELSE Panic(s.current + 1, s.line)
       ELSE Quiet(s.current, s.line)

\* The number branch, after the first digit was consumed.
number_branch(st, cur, ln) ==
    LET end == number_scan(cur)
        text == Slice(source, st, end)
    IN IF ~text.ok THEN Panic(end, ln)
       ELSE LET f == ParseF32(text.val)
            IN IF f.ok THEN add_token("Number", f.val, st, end, ln)
               ELSE Outcome("exit", end, ln, <<>>, <<>>)

\* The identifier branch, after the first character was consumed.
identifier_branch(st, cur, ln) ==
    LET end == alphanum_loop(cur)
        text == Slice(source, st, end)
    IN IF ~text.ok THEN Panic(end, ln)
       ELSE add_token(keyword(text.val), <<>>, st, end, ln)

\* scan_token, c the result of its advance() and cur the cursor after it.
scan_token(c, st, cur, ln) ==
    CASE c \in {"(", ")", "{", "}", ",", ".", "-", "+", ";", "*"} ->
            add_token(single_char(c), <<>>, st, cur, ln)
      [] c = NEWLINE -> Quiet(cur, ln + 1)
      [] c \in {" ", "\r", "\t"} -> Quiet(cur, ln)
      [] c = "/" ->
            LET k == check(cur, "/")
            IN IF k.matched THEN Quiet(comment_loop(k.current), ln)
               ELSE add_token("Slash", <<>>, st, k.current, ln)
      [] c \in {"!", "=", "<", ">"} ->
            LET k == check(cur, "=")
            IN add_token(operator_kind(c, k.matched), <<>>, st, k.current, ln)
      [] c = QUOTE -> string_branch(st, cur, ln)
      [] OTHER ->
            IF is_digit(c) THEN number_branch(st, cur, ln)
            ELSE IF is_alphanum(c) THEN identifier_branch(st, cur, ln)
            ELSE Outcome("ok", cur, ln, <<>>, <<[c |-> c, line |-> ln]>>)

\* ---------------------------------------------------------------- actions

\* run_file, entered with the path of a readable file, has read the file;
\* Lox::new and Scanner::new have run. (main is not part of this
\* specification, which starts in run_file: args is left empty.)
Init ==
    /\ args = <<>>
    /\ file_path = "script.lox"
    /\ source \in Sources
    /\ tokens = <<>>
    /\ start = 0
    /\ current = 0
    /\ line = 0
    /\ had_error = FALSE
    /\ diagnostics = <<>>
    /\ pc = "scan_tokens"
    /\ exit_code = -1
    /\ steps = <<>>

\* One turn of the loop of scan_tokens: start = current; scan_token().
ScanToken ==
    /\ pc = "scan_tokens"
    /\ ~is_at_end(current)
    /\ LET r == scan_token(nth(current), current, current + 1, line)
       IN /\ start' = current
          /\ current' = r.current
          /\ line' = r.line
          /\ tokens' = tokens \o r.emit
          /\ diagnostics' = diagnostics \o r.diag
          /\ pc' = CASE r.result = "ok" -> "scan_tokens"
                     [] r.result = "panic" -> "panicked"
                     [] r.result = "exit" -> "exit_scan"
          /\ exit_code' = CASE r.result = "ok" -> exit_code
                            [] r.result = "panic" -> 101
                            [] r.result = "exit" -> 65
          /\ steps' = Append(steps,
                 [start |-> current, current |-> r.current, line0 |-> line,
                  result |-> IF r.result = "ok" /\ r.emit # <<>> THEN "token"
                             ELSE IF r.result = "ok" THEN "none" ELSE r.result])
    /\ UNCHANGED <<source, had_error, args, file_path>>

\* A variant of the return of scan_tokens that closes the list with an Eof
\* token, as the reference scanner of the book does.
RunReturns_with_eof ==
    /\ pc = "scan_tokens"
    /\ is_at_end(current)
    /\ pc' = "run_file"
    /\ tokens' = Append(tokens, Token("Eof", <<>>, <<>>, line))
    /\ UNCHANGED <<source, start, current, line, had_error, diagnostics,
                   exit_code, steps, args, file_path>>

\* The loop of scan_tokens ends; Lox::run prints the tokens and returns.
RunReturns ==
    /\ pc = "scan_tokens"
    /\ is_at_end(current)
    /\ pc' = "run_file"
    /\ UNCHANGED <<source, tokens, start, current, line, had_error, diagnostics,
                   exit_code, steps, args, file_path>>

\* run_file after lox.run: exit(65) if lox.had_error, else return to main,
\* which ends the process with status 0.
RunFileEnds ==
    /\ pc = "run_file"
    /\ IF had_error
       THEN pc' = "exit_run_file" /\ exit_code' = 65
       ELSE pc' = "returned" /\ exit_code' = 0
    /\ UNCHANGED <<source, tokens, start, current, line, had_error, diagnostics,
                   steps, args, file_path>>

Next == ScanToken \/ RunReturns \/ RunFileEnds

Spec == Init /\ [][Next]_vars

\* ------------------------------------------------- reading the history

\* The token that step i pushed, for a step whose result is "token".
StepToken(i) ==
    tokens[Cardinality({j \in 1..i : steps[j].result = "token"})]

\* The character step i consumed first.
FirstChar(i) == nth(steps[i].start)

TokenTypes == [i \in 1..Len(tokens) |-> tokens[i].token_type]

ScanOver == pc \in {"run_file", "exit_run_file", "returned"}

\* ------------------------------------------------------------------ C1

\* The keyword catalog of the specification: the word and its kind.
KeywordCatalog ==
    { <<<<"a","n","d">>, "And">>, <<<<"c","l","a","s","s">>, "Class">>,
      <<<<"e","l","s","e">>, "Else">>, <<<<"f","a","l","s","e">>, "False">>,
      <<<<"f","u","n">>, "Func">>, <<<<"f","o","r">>, "For">>,
      <<<<"i","f">>, "If">>, <<<<"n","i","l">>, "Nil">>, <<<<"o","r">>, "Or">>,
      <<<<"p","r","i","n","t">>, "Print">>,
      <<<<"r","e","t","u","r","n">>, "Return">>,
      <<<<"s","u","p","e","r">>, "Super">>, <<<<"t","h","i","s">>, "This">>,
      <<<<"t","r","u","e">>, "True">>, <<<<"v","a","r">>, "Var">>,
      <<<<"w","h","i","l","e">>, "While">> }

\* The maximal run of letters, digits and '_' from character index k on.
RECURSIVE AlnumRun(_)
AlnumRun(k) ==
    IF k < Len(source) /\ is_alphanum(source[k + 1])
    THEN <<source[k + 1]>> \o AlnumRun(k + 1) ELSE <<>>

\* C1: every step that starts on a letter and whose identifier-shaped run is
\* a word of the keyword catalog pushes exactly one token, of that word's
\* kind; and the source "for forever" scans to a For token followed by an
\* Identifier token with lexeme "forever".
C1_KeywordsGetTheirKind ==
    /\ \A i \in 1..Len(steps) : \A kw \in KeywordCatalog :
          (is_alpha(FirstChar(i)) /\ AlnumRun(steps[i].start) = kw[1])
             => /\ steps[i].result = "token"
                /\ StepToken(i).token_type = kw[2]
    /\ (ScanOver /\ source = <<"f","o","r"," ","f","o","r","e","v","e","r">>)
          => /\ TokenTypes = <<"For", "Identifier">>
             /\ tokens[2].lexeme = <<"f","o","r","e","v","e","r">>

\* ------------------------------------------------------------------ C2

\* An "Unexpected character." line for a character of the source (advance
\* past the last character yields None, which is no character).
UnrecognisedScanned == \E i \in 1..Len(diagnostics) : diagnostics[i].c # None

\* C2: once Lox::run has returned, had_error is true exactly when a
\* character of no recognised class was scanned, and then run_file ends the
\* process with the lexical-error code 65.
C2_ErrorSignalRaised ==
    /\ ScanOver => (had_error <=> UnrecognisedScanned)
    /\ (pc \in {"exit_run_file", "returned"} /\ UnrecognisedScanned)
          => exit_code = 65

\* ------------------------------------------------------------------ C3

\* C3: every token's line is the value the line counter had when the
\* token's first character was consumed, also for a String token whose body
\* holds newlines.
C3_TokenLineIsStartLine ==
    \A i \in 1..Len(steps) :
        steps[i].result = "token" => StepToken(i).line = steps[i].line0

\* ------------------------------------------------------------------ C4

\* C4: for every source, multi-byte characters included, no step of the
\* scan panics on a slice and no step terminates the process.
C4_ScanNeverFails == pc \notin {"panicked", "exit_scan"}

\* ------------------------------------------------------------------ C5

IsAscii == \A i \in 1..Len(source) : Width(source[i]) = 1

\* A text as its bytes: the j-th byte of character c is <<c, j>>.
RECURSIVE Bytes(_)
Bytes(s) ==
    IF s = <<>> THEN <<>>
    ELSE [j \in 1..Width(s[1]) |-> <<s[1], j>>] \o Bytes(Tail(s))

RECURSIVE ConcatFrom(_)
ConcatFrom(k) ==
    IF k > Len(tokens) THEN <<>> ELSE tokens[k].lexeme \o ConcatFrom(k + 1)

\* The lexemes of all tokens, concatenated in emission order.
ConcatLexemes == ConcatFrom(1)

\* Character index of the first c at or after index k, Len(source) if none.
RECURSIVE IndexOf(_, _)
IndexOf(c, k) ==
    IF k >= Len(source) \/ source[k + 1] = c THEN k ELSE IndexOf(c, k + 1)

Recognised ==
    Digits \cup LowerLetters \cup UpperLetters
       \cup {"_", "(", ")", "{", "}", ",", ".", "-", "+", ";", "*", "/",
             "!", "=", "<", ">"}

\* The source from character index k on, without its whitespace (outside
\* string literals) and its line comments; with lossy, also without the
\* characters of no recognised class and without a string literal that no
\* quote closes.
RECURSIVE Content(_, _)
Content(k, lossy) ==
    IF k >= Len(source) THEN <<>>
    ELSE LET c == source[k + 1]
         IN CASE c \in {" ", "\t", "\r", NEWLINE} -> Content(k + 1, lossy)
              [] c = "/" /\ k + 1 < Len(source) /\ source[k + 2] = "/" ->
                    Content(IndexOf(NEWLINE, k + 2), lossy)
              [] c = QUOTE ->
                    LET j == IndexOf(QUOTE, k + 1)
                    IN IF j < Len(source)
                       THEN SubSeq(source, k + 1, j + 1) \o Content(j + 1, lossy)
                       ELSE IF lossy THEN <<>>
                       ELSE SubSeq(source, k + 1, Len(source))
              [] OTHER ->
                    IF lossy /\ c \notin Recognised THEN Content(k + 1, lossy)
                    ELSE <<c>> \o Content(k + 1, lossy)

\* The byte offsets (1-based) inside the range of a step that pushed no token.
SkippedBytes ==
    {b \in 1..ByteLen(source) :
        \E i \in 1..Len(steps) :
            steps[i].result # "token" /\ steps[i].start < b /\ b <= steps[i].current}

RECURSIVE KeptFrom(_)
KeptFrom(b) ==
    IF b > ByteLen(source) THEN <<>>
    ELSE (IF b \in SkippedBytes THEN <<>> ELSE <<Bytes(source)[b]>>) \o KeptFrom(b + 1)

\* C5 as stated: when the scan is over, the concatenated lexemes are the
\* source with its whitespace (outside string literals) and its line
\* comments removed.
C5_RoundTrip_AsStated == ScanOver => ConcatLexemes = Content(0, FALSE)

\* C5, amended: when the scan is over, the concatenated lexemes are the
\* source without the ranges source[start..current) of the steps that pushed
\* no token; for an ASCII source that is the source with its whitespace
\* (outside string literals), its line comments, its characters of no
\* recognised class and a string literal that no quote closes removed.
C5_RoundTrip ==
    ScanOver =>
        /\ Bytes(ConcatLexemes) = KeptFrom(1)
        /\ IsAscii => ConcatLexemes = Content(0, TRUE)

\* A finished scan of an ASCII source that pushed tokens and dropped a
\* character of no recognised class.
C5_Witness ==
    /\ ScanOver /\ IsAscii /\ Len(tokens) >= 2 /\ UnrecognisedScanned
    /\ ConcatLexemes # Content(0, FALSE)

\* ------------------------------------------------------------------ C6

\* C6: every token's lexeme is the slice source[start..current) of the step
\* that pushed it, byte for byte, never rebuilt from the payload: a String
\* token's lexeme is two bytes (the quotes' places) longer than its payload,
\* the lexeme of "hello" in quotes keeps both quotes, and the Number token of
\* 1.0 keeps the digits 1.0 although its value is 1.
C6_LexemeIsSlice ==
    /\ \A i \in 1..Len(steps) :
          steps[i].result = "token" =>
             LET t == StepToken(i)
             IN /\ Bytes(t.lexeme)
                      = SubSeq(Bytes(source), steps[i].start + 1, steps[i].current)
                /\ t.token_type = "String"
                      => Len(Bytes(t.lexeme)) = Len(Bytes(t.literal)) + 2
    /\ (ScanOver /\ source = <<QUOTE,"h","e","l","l","o",QUOTE>>)
          => /\ Len(tokens) = 1
             /\ tokens[1].lexeme = source
    /\ (ScanOver /\ source = <<"1",".","0">>)
          => /\ Len(tokens) = 1
             /\ tokens[1].lexeme = source
             /\ tokens[1].literal = <<"1">>

\* A token list that holds a String token and a Number token whose lexemes
\* differ from their payloads.
C6_Witness ==
    /\ \E i \in 1..Len(tokens) :
          tokens[i].token_type = "String" /\ tokens[i].lexeme # tokens[i].literal
    /\ \E i \in 1..Len(tokens) :
          tokens[i].token_type = "Number" /\ tokens[i].lexeme # tokens[i].literal

\* ------------------------------------------------------------------ C7

\* C7: a step that consumes '!', '=', '<' or '>' with a '=' after it
\* consumes both and pushes exactly one token of the two-character kind, with
\* a lexeme of two characters; with anything else after it, or nothing, it
\* consumes that one character and pushes the one-character kind.
C7_MaximalMunch ==
    \A i \in 1..Len(steps) :
        FirstChar(i) \in {"!", "=", "<", ">"} =>
           LET two == nth(steps[i].start + 1) = "="
           IN /\ steps[i].result = "token"
              /\ steps[i].current = steps[i].start + (IF two THEN 2 ELSE 1)
              /\ StepToken(i).token_type = operator_kind(FirstChar(i), two)
              /\ Len(StepToken(i).lexeme) = (IF two THEN 2 ELSE 1)

\* The same on the sources that hold single-byte characters only.
C7_MaximalMunchOnAscii == IsAscii => C7_MaximalMunch

\* ------------------------------------------------------------------ C8

\* Character index of the first non-digit at or after index k.
RECURSIVE DigitsEnd(_)
DigitsEnd(k) ==
    IF k < Len(source) /\ source[k + 1] \in Digits THEN DigitsEnd(k + 1) ELSE k

\* Where a number that starts at character index k ends: the digits, then a
\* '.' only if a digit follows it, then the digits after it.
NumberEnd(k) ==
    LET a == DigitsEnd(k)
    IN IF a + 1 < Len(source) /\ source[a + 1] = "." /\ source[a + 2] \in Digits
       THEN DigitsEnd(a + 1) ELSE a

\* C8: a step that starts on a digit consumes the maximal run of digits, a
\* following '.' only if a digit comes after it, and then the maximal run of
\* digits: "3." is Number("3") then Dot, ".5" is Dot then Number("5"), and
\* "1.2.3" is Number("1.2"), Dot, Number("3").
C8_NumberBoundary ==
    /\ \A i \in 1..Len(steps) :
          is_digit(FirstChar(i)) => steps[i].current = NumberEnd(steps[i].start)
    /\ (ScanOver /\ source = <<"3",".">>)
          => /\ TokenTypes = <<"Number", "Dot">>
             /\ tokens[1].lexeme = <<"3">>
    /\ (ScanOver /\ source = <<".","5">>)
          => /\ TokenTypes = <<"Dot", "Number">>
             /\ tokens[2].lexeme = <<"5">>
    /\ (ScanOver /\ source = <<"1",".","2",".","3">>)
          => /\ TokenTypes = <<"Number", "Dot", "Number">>
             /\ tokens[1].lexeme = <<"1",".","2">>
             /\ tokens[3].lexeme = <<"3">>

\* The scan of "1.2.3" is over, with its three tokens.
C8_Witness ==
    /\ ScanOver /\ source = <<"1",".","2",".","3">> /\ Len(tokens) = 3
    /\ is_digit(FirstChar(1)) /\ steps[1].current = 3

\* ------------------------------------------------------------------ C9

\* The newline characters among the first k characters of the source.
Newlines(k) == Cardinality({i \in 1..k : source[i] = NEWLINE})

Min(a, b) == IF a < b THEN a ELSE b

\* C9: the tokens' lines never decrease in emission order; the line counter
\* is the number of newlines among the characters consumed so far, wherever
\* they stood (between tokens, after a comment, inside a string literal);
\* and when scan_tokens has finished it is the number of newlines of the
\* source.
C9_LineTracking ==
    /\ \A i \in 1..Len(tokens) : \A j \in i..Len(tokens) :
          tokens[i].line <= tokens[j].line
    /\ line = Newlines(Min(current, Len(source)))
    /\ ScanOver => line = Newlines(Len(source))

\* A finished scan that passed a newline inside a string literal and pushed
\* a later token.
C9_Witness ==
    /\ ScanOver /\ line >= 1 /\ Len(tokens) >= 2
    /\ \E i \in 1..Len(steps) :
          /\ steps[i].result = "token"
          /\ FirstChar(i) = QUOTE
          /\ StepToken(i).line > steps[i].line0

\* ----------------------------------------------------------------- C10

\* C10: a step that consumes an opening quote which a later quote closes
\* consumes through the first such quote and pushes exactly one String token,
\* its payload the text between the two quotes and its lexeme the text with
\* both quotes.
C10_StringLiteral ==
    \A i \in 1..Len(steps) :
        LET st == steps[i].start
            j == IndexOf(QUOTE, st + 1)
        IN (FirstChar(i) = QUOTE /\ j < Len(source)) =>
              /\ steps[i].result = "token"
              /\ steps[i].current = j + 1
              /\ StepToken(i).token_type = "String"
              /\ StepToken(i).literal = SubSeq(source, st + 2, j)
              /\ StepToken(i).lexeme = SubSeq(source, st + 1, j + 1)

\* The same on the sources that hold single-byte characters only.
C10_StringLiteralOnAscii == IsAscii => C10_StringLiteral

\* ----------------------------------------------------------------- C11

\* Where a line comment that starts at character index k ends: at the next
\* newline, or at the end of the input.
CommentEnd(k) ==
    LET j == IndexOf(NEWLINE, k) IN IF j < Len(source) THEN j ELSE ByteLen(source)

\* C11: a step that consumes '/' with a '/' after it consumes up to, not
\* including, the next newline (or to the end of the input) and pushes no
\* token; with anything else after it, it pushes Slash with lexeme "/"; and
\* "1 // comment\n2" scans to exactly two Number tokens, 1 and 2, whose lines
\* differ by 1.
C11_LineComments ==
    /\ \A i \in 1..Len(steps) :
          FirstChar(i) = "/" =>
             IF nth(steps[i].start + 1) = "/"
             THEN /\ steps[i].result = "none"
                  /\ steps[i].current = CommentEnd(steps[i].start + 2)
             ELSE /\ steps[i].result = "token"
                  /\ steps[i].current = steps[i].start + 1
                  /\ StepToken(i).token_type = "Slash"
                  /\ StepToken(i).lexeme = <<"/">>
    /\ (ScanOver
          /\ source = <<"1"," ","/","/"," ","c","o","m","m","e","n","t",NEWLINE,"2">>)
          => /\ TokenTypes = <<"Number", "Number">>
             /\ tokens[1].lexeme = <<"1">> /\ tokens[2].lexeme = <<"2">>
             /\ tokens[2].line = tokens[1].line + 1

\* The same on the sources that hold single-byte characters only.
C11_LineCommentsOnAscii == IsAscii => C11_LineComments

\* ----------------------------------------------------------------- C13

\* The single-character punctuation of the specification and its kinds.
PunctuationCatalog ==
    { <<"(", "LeftParen">>, <<")", "RightParen">>, <<"{", "LeftBrace">>,
      <<"}", "RightBrace">>, <<",", "Comma">>, <<".", "Dot">>,
      <<"-", "Minus">>, <<"+", "Plus">>, <<";", "Semicolon">>, <<"*", "Star">> }

\* C13: a step that starts on one of ( ) { } , . - + ; * consumes exactly
\* that character and pushes exactly one token, of the matching kind, whose
\* lexeme is that character, whatever follows.
C13_SingleCharacterTokens ==
    \A i \in 1..Len(steps) : \A p \in PunctuationCatalog :
        FirstChar(i) = p[1] =>
           /\ steps[i].result = "token"
           /\ steps[i].current = steps[i].start + 1
           /\ StepToken(i).token_type = p[2]
           /\ StepToken(i).lexeme = <<p[1]>>

\* The same on the sources that hold single-byte characters only.
C13_SingleCharacterTokensOnAscii == IsAscii => C13_SingleCharacterTokens

\* ----------------------------------------------------------------- C16

KeywordWords == {kw[1] : kw \in KeywordCatalog}

\* C16: a step that starts on a letter or '_' and whose maximal run of
\* letters, digits and '_' is not, case-sensitively, a keyword pushes exactly
\* one Identifier token that spans the whole run: "forever", "andy",
\* "classes" and "Var" are never a keyword token and never split.
C16_ExactMatchLookup ==
    \A i \in 1..Len(steps) :
        LET run == AlnumRun(steps[i].start)
        IN (is_alpha(FirstChar(i)) /\ run \notin KeywordWords) =>
              /\ steps[i].result = "token"
              /\ steps[i].current = steps[i].start + Len(run)
              /\ StepToken(i).token_type = "Identifier"
              /\ StepToken(i).lexeme = run

\* The same on the sources that hold single-byte characters only.
C16_ExactMatchLookupOnAscii == IsAscii => C16_ExactMatchLookup

\* ----------------------------------------------------------------- C14

\* The line counter after step i.
LineAfter(i) == IF i < Len(steps) THEN steps[i + 1].line0 ELSE line

Whitespace == {" ", "\t", "\r", NEWLINE}

\* The steps that took the fallback branch: their first character is of no
\* recognised class (or there was no character left to read).
FallbackSteps ==
    {j \in 1..Len(steps) : FirstChar(j) \notin Recognised \cup Whitespace \cup {QUOTE}}

TokenSteps == {j \in 1..Len(steps) : steps[j].result = "token"}

\* C14: a step that consumes an opening quote which no later quote closes
\* consumes all the remaining input and is the last step, pushes no token and
\* prints no diagnostic; the tokens pushed before it are kept, the line
\* counter grows by the newlines passed over, and the scan ends with current
\* equal to the length of the source.
C14_UnterminatedString ==
    \A i \in 1..Len(steps) :
        LET st == steps[i].start
        IN (FirstChar(i) = QUOTE /\ IndexOf(QUOTE, st + 1) >= Len(source)) =>
              /\ steps[i].result = "none"
              /\ i = Len(steps)
              /\ steps[i].current = ByteLen(source)
              /\ current = ByteLen(source)
              /\ Len(tokens) = Cardinality(TokenSteps)
              /\ Len(diagnostics) = Cardinality(FallbackSteps)
              /\ line = steps[i].line0 + Newlines(Len(source)) - Newlines(st + 1)

\* A finished scan that kept a token, then ran into a string literal that no
\* quote closes and that holds a newline.
C14_Witness ==
    /\ ScanOver /\ Len(tokens) >= 1 /\ Len(steps) >= 2
    /\ FirstChar(Len(steps)) = QUOTE
    /\ steps[Len(steps)].result = "none"
    /\ line > steps[Len(steps)].line0

\* ----------------------------------------------------------------- C15

\* C15: every step of the program leaves the token list as it was or appends
\* exactly one token to it; no token once pushed is removed or changed.
C15_TokensAppendOnly ==
    [][ /\ Len(tokens') \in {Len(tokens), Len(tokens) + 1}
        /\ SubSeq(tokens', 1, Len(tokens)) = tokens ]_vars

\* A scan that pushed a token, then nothing, then a token.
C15_Witness ==
    \E i \in 1..Len(steps) :
        /\ i + 2 <= Len(steps)
        /\ steps[i].result = "token"
        /\ steps[i + 1].result = "none"
        /\ steps[i + 2].result = "token"
        /\ Len(tokens) >= 2

\* ----------------------------------------------------------------- C17

\* The source from character index k on is whitespace and line comments only.
RECURSIVE Blank(_)
Blank(k) ==
    IF k >= Len(source) THEN TRUE
    ELSE IF source[k + 1] \in Whitespace THEN Blank(k + 1)
    ELSE IF source[k + 1] = "/" /\ k + 1 < Len(source) /\ source[k + 2] = "/"
         THEN Blank(IndexOf(NEWLINE, k + 2))
    ELSE FALSE

\* C17: no token is ever an Eof token; the token list holds exactly the
\* tokens the steps pushed, so when the scan is over its last element is the
\* token of the last step that pushed one, and it is empty for an empty, a
\* whitespace-only or a comment-only source.
C17_NoTerminatorToken ==
    /\ \A k \in 1..Len(tokens) : tokens[k].token_type # "Eof"
    /\ Len(tokens) = Cardinality(TokenSteps)
    /\ (ScanOver /\ Blank(0)) => tokens = <<>>

\* A finished scan whose last step pushed the last token.
C17_Witness ==
    /\ ScanOver /\ Len(tokens) >= 2
    /\ steps[Len(steps)].result = "token"
    /\ steps[Len(steps)].current = ByteLen(source)

\* ----------------------------------------------------------------- C18

\* The cursor pair is in range; every step moved the cursor forward, and not
\* past the end; each step starts where the one before it ended, so the
\* ranges of two tokens are disjoint and in increasing order; there are never
\* more steps than the source is long; a finished scan has consumed it all.
CursorsInOrder ==
    /\ 0 <= start /\ start <= current /\ current <= ByteLen(source)
    /\ \A i \in 1..Len(steps) :
          /\ steps[i].start < steps[i].current
          /\ steps[i].current <= ByteLen(source)
          /\ i > 1 => steps[i].start = steps[i - 1].current
    /\ \A i \in TokenSteps : \A j \in TokenSteps :
          i < j => steps[i].current <= steps[j].start
    /\ Len(steps) <= ByteLen(source)
    /\ ScanOver => current = ByteLen(source)

\* C18: on an ASCII source the cursors stay in order in every reachable
\* state and each step strictly advances the cursor without passing the end;
\* the scan never stops short (no panic, no exit, and while the loop runs
\* either the cursor is before the end, which is all another step needs, or
\* the return is enabled), so it terminates, after at most len(source) steps,
\* with current equal to len(source).
C18_ProgressAndTermination ==
    IsAscii =>
       /\ CursorsInOrder
       /\ pc \notin {"panicked", "exit_scan"}
       /\ pc = "scan_tokens" =>
             /\ ~is_at_end(current) \/ ENABLED RunReturns
             /\ ENABLED RunReturns <=> current = ByteLen(source)

\* A finished scan of an ASCII source that took several steps.
C18_Witness ==
    /\ IsAscii /\ ScanOver /\ current = ByteLen(source)
    /\ Len(steps) >= 3 /\ Len(tokens) >= 2

\* ----------------------------------------------------------------- C19

\* D+ or D+ '.' D+: starts and ends with a digit, holds digits and at most
\* one '.', nothing else.
WellFormedNumber(t) ==
    /\ Len(t) >= 1
    /\ t[1] \in Digits /\ t[Len(t)] \in Digits
    /\ \A k \in 1..Len(t) : t[k] \in Digits \cup {"."}
    /\ Cardinality({k \in 1..Len(t) : t[k] = "."}) <= 1

\* C19: on an ASCII source, the slice source[start..current) of every step
\* that takes the number branch is a well-formed decimal numeral, so
\* exit(65) is reached only when such a numeral fails to parse.
C19_NumberSlicesWellFormed ==
    IsAscii =>
       \A i \in 1..Len(steps) :
           is_digit(FirstChar(i)) =>
              /\ steps[i].result \in {"token", "exit"}
              /\ WellFormedNumber(SubSeq(source, steps[i].start + 1, steps[i].current))
              /\ steps[i].result = "token" =>
                    /\ StepToken(i).token_type = "Number"
                    /\ StepToken(i).lexeme
                          = SubSeq(source, steps[i].start + 1, steps[i].current)

\* An ASCII source with a Number token that has a fractional part, right
\* before a '.' that is not part of it.
C19_Witness ==
    /\ IsAscii
    /\ \E i \in 1..Len(steps) :
          /\ is_digit(FirstChar(i))
          /\ steps[i].result = "token"
          /\ \E k \in 1..Len(StepToken(i).lexeme) : StepToken(i).lexeme[k] = "."
          /\ nth(steps[i].current) = "."


\* ------------------------------------------- the scanner on a given text

\* Scanner::new(src) followed by scan_tokens, as a function of the text: the
\* operators of the Scanner section with the text as an argument, for
\* comparing the scan of one text with the scan of another.

is_at_end_in(src, cur) == cur >= ByteLen(src)

nth_in(src, i) == IF i < Len(src) THEN src[i + 1] ELSE None

peek_in(src, cur) == IF is_at_end_in(src, cur) THEN None ELSE nth_in(src, cur)

peek_next_in(src, cur) ==
    IF cur + 1 >= ByteLen(src) THEN NUL ELSE nth_in(src, cur + 1)

check_in(src, cur, expected) ==
    IF is_at_end_in(src, cur) THEN [matched |-> FALSE, current |-> cur]
    ELSE IF nth_in(src, cur) = expected THEN [matched |-> TRUE, current |-> cur + 1]
    ELSE [matched |-> FALSE, current |-> cur]

add_token_in(src, token_type, literal, st, cur, ln) ==
    LET lexeme == Slice(src, st, cur)
    IN IF lexeme.ok
       THEN Outcome("ok", cur, ln, <<Token(token_type, literal, lexeme.val, ln)>>, <<>>)
       ELSE Panic(cur, ln)

RECURSIVE comment_loop_in(_, _)
comment_loop_in(src, cur) ==
    IF peek_in(src, cur) # NEWLINE /\ ~is_at_end_in(src, cur)
    THEN comment_loop_in(src, cur + 1) ELSE cur

RECURSIVE string_loop_in(_, _, _)
string_loop_in(src, cur, ln) ==
    IF peek_in(src, cur) # QUOTE /\ ~is_at_end_in(src, cur)
    THEN string_loop_in(src, cur + 1,
                        IF peek_in(src, cur) = NEWLINE THEN ln + 1 ELSE ln)
    ELSE [current |-> cur, line |-> ln]

RECURSIVE digit_loop_in(_, _)
digit_loop_in(src, cur) ==
    IF is_digit(peek_in(src, cur)) THEN digit_loop_in(src, cur + 1) ELSE cur

RECURSIVE alphanum_loop_in(_, _)
alphanum_loop_in(src, cur) ==
    IF is_alphanum(peek_in(src, cur)) THEN alphanum_loop_in(src, cur + 1) ELSE cur

number_scan_in(src, cur) ==
    LET c1 == digit_loop_in(src, cur)
        c2 == IF peek_in(src, c1) = "." /\ is_digit(peek_next_in(src, c1))
              THEN c1 + 1 ELSE c1
    IN digit_loop_in(src, c2)

string_branch_in(src, st, cur, ln) ==
    LET s == string_loop_in(src, cur, ln)
    IN IF ~is_at_end_in(src, s.current)
       THEN LET body == Slice(src, st + 1, s.current + 1 - 1)
            IN IF body.ok
               THEN add_token_in(src, "String", body.val, st, s.current + 1, s.line)
               ELSE Panic(s.current + 1, s.line)
       ELSE Quiet(s.current, s.line)

number_branch_in(src, st, cur, ln) ==
    LET end == number_scan_in(src, cur)
        text == Slice(src, st, end)
    IN IF ~text.ok THEN Panic(end, ln)
       ELSE LET f == ParseF32(text.val)
            IN IF f.ok THEN add_token_in(src, "Number", f.val, st, end, ln)
               ELSE Outcome("exit", end, ln, <<>>, <<>>)

identifier_branch_in(src, st, cur, ln) ==
    LET end == alphanum_loop_in(src, cur)
        text == Slice(src, st, end)
    IN IF ~text.ok THEN Panic(end, ln)
       ELSE add_token_in(src, keyword(text.val), <<>>, st, end, ln)

scan_token_in(src, c, st, cur, ln) ==
    CASE c \in {"(", ")", "{", "}", ",", ".", "-", "+", ";", "*"} ->
            add_token_in(src, single_char(c), <<>>, st, cur, ln)
      [] c = NEWLINE -> Quiet(cur, ln + 1)
      [] c \in {" ", "\r", "\t"} -> Quiet(cur, ln)
      [] c = "/" ->
            LET k == check_in(src, cur, "/")
            IN IF k.matched THEN Quiet(comment_loop_in(src, k.current), ln)
               ELSE add_token_in(src, "Slash", <<>>, st, k.current, ln)
      [] c \in {"!", "=", "<", ">"} ->
            LET k == check_in(src, cur, "=")
            IN add_token_in(src, operator_kind(c, k.matched), <<>>, st, k.current, ln)
      [] c = QUOTE -> string_branch_in(src, st, cur, ln)
      [] OTHER ->
            IF is_digit(c) THEN number_branch_in(src, st, cur, ln)
            ELSE IF is_alphanum(c) THEN identifier_branch_in(src, st, cur, ln)
            ELSE Outcome("ok", cur, ln, <<>>, <<[c |-> c, line |-> ln]>>)

\* The loop of scan_tokens on src from the cursor cur, line ln and token
\* list toks, to its end: by return ("ok"), by a panic or by exit(65).
RECURSIVE scan_tokens_in(_, _, _, _)
scan_tokens_in(src, cur, ln, toks) ==
    IF is_at_end_in(src, cur)
    THEN [result |-> "ok", current |-> cur, line |-> ln, tokens |-> toks]
    ELSE LET r == scan_token_in(src, nth_in(src, cur), cur, cur + 1, ln)
         IN IF r.result = "ok"
            THEN scan_tokens_in(src, r.current, r.line, toks \o r.emit)
            ELSE [result |-> r.result, current |-> r.current, line |-> r.line,
                  tokens |-> toks]

\* Lox::run(src) up to the printing of the tokens.
run_in(src) == scan_tokens_in(src, 0, 0, <<>>)

\* ------------------------------------------------------------------ C12

\* The loop of scan_tokens has ended, by return, panic or exit.
LoopOver == pc # "scan_tokens"

\* The scan as a function of the text gives what the scan of the source gave.
RunInAgrees ==
    LoopOver =>
       LET r == run_in(source)
       IN /\ r.tokens = tokens
          /\ r.current = current
          /\ r.line = line
          /\ r.result = CASE pc = "panicked" -> "panic"
                          [] pc = "exit_scan" -> "exit"
                          [] OTHER -> "ok"

\* The steps whose first character is of no recognised class.
UnexpectedSteps ==
    {j \in 1..Len(steps) :
        FirstChar(j) \notin Recognised \cup Whitespace \cup {QUOTE, None}}

\* The source with the character that step j read first turned into a space.
Spaced(j) == [source EXCEPT ![steps[j].start + 1] = " "]

\* C12: a step that consumes a character of no recognised class pushes no
\* token, consumes exactly that one character and leaves the line counter as
\* it was (the tokens pushed before stay: C15), and the tokens the scan ends
\* with are the tokens of the source with that character turned into a space.
C12_UnexpectedCharacterRecovery ==
    \A j \in UnexpectedSteps :
        /\ steps[j].result = "none"
        /\ steps[j].current = steps[j].start + 1
        /\ LineAfter(j) = steps[j].line0
        /\ LoopOver => tokens = run_in(Spaced(j)).tokens

\* C12 on the sources without multi-byte characters.
C12_UnexpectedCharacterRecoveryOnAscii ==
    IsAscii => C12_UnexpectedCharacterRecovery

\* A source where tokens follow a character of no recognised class.
C12_RecoveryHappens ==
    /\ LoopOver
    /\ \E j \in UnexpectedSteps : \E k \in TokenSteps : k > j


\* ------------------------------------------------------------ the driver

\* The longest argument vector started with.
MaxArgs == 3

\* env::args(): the program's name, then the arguments given.
ArgVectors ==
    {<<"jlox">> \o a : a \in SeqsUpTo({"script.lox", "extra"}, MaxArgs - 1)}

\* v[i] on a Vec: the element at the zero-based index i; the index panics
\* when i is not below the length.
index(v, i) ==
    IF i < Len(v) THEN [ok |-> TRUE, val |-> v[i + 1]]
    ELSE [ok |-> FALSE, val |-> None]

\* What stdin.read_line can put into the empty buffer: a non-empty text
\* with no newline before its last character.
Lines ==
    {s \in Sources : s # <<>> /\ \A i \in 1..(Len(s) - 1) : s[i] # NEWLINE}

USAGE == "Usage: jlox [script]"

\* The process has started; main has collected its arguments.
InitMain ==
    /\ args \in ArgVectors
    /\ file_path = None
    /\ source = <<>>
    /\ tokens = <<>>
    /\ start = 0
    /\ current = 0
    /\ line = 0
    /\ had_error = FALSE
    /\ diagnostics = <<>>
    /\ pc = "main"
    /\ exit_code = -1
    /\ steps = <<>>

\* main: the dispatch on args.len(). With two arguments the path handed to
\* run_file is args[2].
Main ==
    /\ pc = "main"
    /\ IF Len(args) = 1
       THEN /\ pc' = "run_prompt"
            /\ UNCHANGED <<file_path, exit_code, diagnostics>>
       ELSE IF Len(args) = 2
       THEN LET path == index(args, 2)
            IN IF path.ok
               THEN /\ pc' = "run_file_entry"
                    /\ file_path' = path.val
                    /\ UNCHANGED <<exit_code, diagnostics>>
               ELSE /\ pc' = "main_panicked"
                    /\ exit_code' = 101
                    /\ UNCHANGED <<file_path, diagnostics>>
       ELSE /\ pc' = "exit_usage"
            /\ exit_code' = 64
            /\ diagnostics' = <<USAGE>>
            /\ UNCHANGED file_path
    /\ UNCHANGED <<source, tokens, start, current, line, had_error, steps, args>>

\* run_prompt: read_line has read a line; Lox::run starts on it with a new
\* Scanner. (diagnostics and steps are kept per line read.)
PromptReadLine ==
    /\ pc = "run_prompt"
    /\ \E buffer \in Lines : source' = buffer
    /\ tokens' = <<>>
    /\ start' = 0
    /\ current' = 0
    /\ line' = 0
    /\ diagnostics' = <<>>
    /\ steps' = <<>>
    /\ pc' = "scan_tokens"
    /\ UNCHANGED <<had_error, exit_code, args, file_path>>

\* run_prompt: read_line gives Ok(0) or Err; the loop breaks, run_prompt and
\* main return.
PromptEnds ==
    /\ pc = "run_prompt"
    /\ pc' = "returned"
    /\ exit_code' = 0
    /\ UNCHANGED <<source, tokens, start, current, line, had_error, diagnostics,
                   steps, args, file_path>>

\* The loop of scan_tokens ends; Lox::run prints the tokens, which drops the
\* scanner, and returns to the loop of run_prompt, which clears had_error.
PromptRunReturns ==
    /\ pc = "scan_tokens"
    /\ is_at_end(current)
    /\ pc' = "run_prompt"
    /\ had_error' = FALSE
    /\ source' = <<>>
    /\ tokens' = <<>>
    /\ start' = 0
    /\ current' = 0
    /\ line' = 0
    /\ UNCHANGED <<diagnostics, steps, exit_code, args, file_path>>

NextMain ==
    Main \/ PromptReadLine \/ PromptEnds \/ ScanToken \/ PromptRunReturns

\* The program from its start in main, on the paths main can take.
SpecMain == InitMain /\ [][NextMain]_vars

\* ------------------------------------------------------------------ C20

\* C20: started with one script path (an argument vector of length 2), main
\* calls run_file with that argument as the path; with no argument it enters
\* the prompt loop; with more arguments it prints the usage line and exits
\* with code 64; and no argument count makes main panic.
C20_DriverDispatch ==
    /\ pc # "main_panicked"
    /\ pc # "main" =>
          /\ Len(args) = 1 => pc \in {"run_prompt", "scan_tokens", "returned",
                                      "panicked", "exit_scan"}
          /\ Len(args) = 2 => pc = "run_file_entry" /\ file_path = args[2]
          /\ Len(args) > 2 =>
                pc = "exit_usage" /\ exit_code = 64 /\ diagnostics = <<USAGE>>

\* C20 without the case of one script path: the other argument counts are
\* dispatched as stated.
C20_DriverDispatchOtherCounts ==
    Len(args) # 2 => C20_DriverDispatch

\* What the code does with one script path: main panics on args[2], and
\* run_file is not called.
C20_OneArgumentPanics ==
    (Len(args) = 2 /\ pc # "main") =>
        pc = "main_panicked" /\ exit_code = 101 /\ file_path = None

====
